---------------------------- MODULE Spec2Model ----------------------------
(***************************************************************************)
(* Model of ggez's src/graphics/mesh.rs: MeshBuilder (shape calls that     *)
(* append to one lyon VertexBuffers accumulator, and build), the           *)
(* VertexBuilder vertex constructor, and Mesh's Drawable implementation.   *)
(*                                                                         *)
(* The lyon tessellators, lyon's BuffersBuilder sink and the gfx context   *)
(* are external crates.  Their observable behaviour is modelled by its     *)
(* interface as used in mesh.rs; what a tessellator emits for a given      *)
(* shape is a nondeterministic choice among small geometries.              *)
(***************************************************************************)
EXTENDS Integers, Sequences, FiniteSets, TLC

\* ------------------------------------------------------------------ bounds
MaxPoints == 6       \* longest point list handed to triangles
MaxVerts == 2        \* shape calls are made while the accumulator is shorter
MaxTessVerts == 2    \* vertices a tessellator emits in one call
MaxMeshes == 2       \* successful builds in one run

\* ------------------------------------------------------------------ values
Point2s == <<[x |-> 1, y |-> 1], [x |-> 0, y |-> 1], [x |-> 1, y |-> 0]>>
\* Point lists: one point repeated (degenerate triangles), or the three
\* points in rotation (proper triangles).
PointLists ==
    {[i \in 1..n |-> Point2s[((i * d) % Len(Point2s)) + 1]] :
        n \in 0..MaxPoints, d \in 0..1}
Widths == {1}
Fill == [kind |-> "Fill", width |-> 0]
Line(w) == [kind |-> "Line", width |-> w]
DrawModes == {Fill} \cup {Line(w) : w \in Widths}
DrawParams == {"p1"}
NoMode == [kind |-> "none", width |-> 0]

\* -------------------------------------------------- VertexBuilder (218-236)
\* impl VertexConstructor<FillVertex, Vertex>
NewVertexFill(vertex) ==
    [pos |-> <<vertex.position[1], vertex.position[2]>>, uv |-> <<0, 0>>]

\* Mutant: the stroke constructor fills uv from the position.
NewVertexStroke_UvFromPosition(vertex) ==
    [pos |-> <<vertex.position[1], vertex.position[2]>>,
     uv |-> <<vertex.position[1], vertex.position[2]>>]

\* impl VertexConstructor<StrokeVertex, Vertex>
NewVertexStroke(vertex) ==
    [pos |-> <<vertex.position[1], vertex.position[2]>>, uv |-> <<0, 0>>]

NewVertex(kind, vertex) ==
    IF kind = "Fill" THEN NewVertexFill(vertex) ELSE NewVertexStroke(vertex)

\* ------------------------------------------- lyon BuffersBuilder (the sink)
\* VertexBuffers::new(): empty vertex and index lists.
NewBuffers == [vertices |-> <<>>, indices |-> <<>>]

\* BuffersBuilder::new(buffers, VertexBuilder) followed by begin_geometry():
\* vertex ids handed out are relative to the vertices already present.
BeginGeometry(buffers, kind) ==
    [vertices |-> buffers.vertices, indices |-> buffers.indices,
     vertex_offset |-> Len(buffers.vertices), kind |-> kind]

\* add_vertex: push the constructed vertex, return its id.
AddVertex(b, v) ==
    [b EXCEPT !.vertices = Append(b.vertices, NewVertex(b.kind, v))]

LastVertexId(b) == Len(b.vertices) - 1 - b.vertex_offset

\* add_triangle: push the three ids, made absolute.
AddTriangle(b, i1, i2, i3) ==
    [b EXCEPT !.indices = b.indices \o
        <<i1 + b.vertex_offset, i2 + b.vertex_offset, i3 + b.vertex_offset>>]

\* end_geometry: the buffers the builder borrowed, as it leaves them.
EndGeometry(b) == [vertices |-> b.vertices, indices |-> b.indices]

\* ------------------------------------------------ MeshBuilder::triangles
\* lines 161-177: each Point2 becomes a FillVertex (position and normal).
PointToFillVertex(p) == [position |-> <<p.x, p.y>>, normal |-> <<p.x, p.y>>]

\* Mutant: the triangle is added with its second and third ids exchanged.
AddTri_ExchangedIds(b, tri) ==
    LET b1 == AddVertex(b, tri[1])
        i1 == LastVertexId(b1)
        b2 == AddVertex(b1, tri[2])
        i2 == LastVertexId(b2)
        b3 == AddVertex(b2, tri[3])
        i3 == LastVertexId(b3)
    IN  AddTriangle(b3, i1, i3, i2)

\* Mutant: each id is the vertex count after the push, one past the slot.
AddTri_IdsOnePast(b, tri) ==
    LET b1 == AddVertex(b, tri[1])
        i1 == LastVertexId(b1) + 1
        b2 == AddVertex(b1, tri[2])
        i2 == LastVertexId(b2) + 1
        b3 == AddVertex(b2, tri[3])
        i3 == LastVertexId(b3) + 1
    IN  AddTriangle(b3, i1, i2, i3)

\* lines 183-194: one chunk of three vertices.
AddTri(b, tri) ==
    LET b1 == AddVertex(b, tri[1])
        i1 == LastVertexId(b1)
        b2 == AddVertex(b1, tri[2])
        i2 == LastVertexId(b2)
        b3 == AddVertex(b2, tri[3])
        i3 == LastVertexId(b3)
    IN  AddTriangle(b3, i1, i2, i3)

\* lines 178, 183-194: tris.chunks(3); a last chunk shorter than three
\* fails assert!(tri.len() == 3) after the chunks before it were added.
RECURSIVE AddChunks(_, _)
AddChunks(b, tris) ==
    IF Len(tris) = 0 THEN [builder |-> b, ok |-> TRUE]
    ELSE IF Len(tris) < 3 THEN [builder |-> b, ok |-> FALSE]
    ELSE AddChunks(AddTri(b, SubSeq(tris, 1, 3)), SubSeq(tris, 4, Len(tris)))

\* Mutant: the length assertion of line 160 is absent.
TrianglesAccepts_Unchecked(points) == TRUE

\* line 160: assert_eq!(triangles.len() % 3, 0)
TrianglesAccepts(points) == Len(points) % 3 = 0

\* lines 161-195, past the assertion of line 160.
TrianglesBody(buffers, points) ==
    LET tris == [i \in 1..Len(points) |-> PointToFillVertex(points[i])]
        r == AddChunks(BeginGeometry(buffers, "Fill"), tris)
    IN  [buffers |-> EndGeometry(r.builder), ok |-> r.ok]


\* ------------------------------------------------ the tessellation engine
\* What fill_circle, stroke_circle, fill_ellipse, stroke_ellipse,
\* fill_polyline and stroke_polyline write into the sink for one shape: some
\* vertices, and triangles over the ids the sink returned for them.
TessPositions == <<(<<0, 1>>), (<<1, 0>>)>>
TessVertex(i) ==
    [position |-> TessPositions[(i % Len(TessPositions)) + 1],
     normal |-> <<1, 1>>]
TessTriangles(nv) == (0..(nv - 1)) \X (0..(nv - 1)) \X (0..(nv - 1))
\* A tessellator call emits no triangle or one.
TriCounts == 0..1
TessGeometries ==
    UNION {{[verts |-> [i \in 1..nv |-> TessVertex(i)], tris |-> ts] :
                ts \in UNION {[1..k -> TessTriangles(nv)] : k \in TriCounts}} :
           nv \in 0..MaxTessVerts}

RECURSIVE AddVertices(_, _)
AddVertices(b, vs) ==
    IF Len(vs) = 0 THEN b
    ELSE AddVertices(AddVertex(b, Head(vs)), Tail(vs))

RECURSIVE AddTriangles(_, _)
AddTriangles(b, ts) ==
    IF Len(ts) = 0 THEN b
    ELSE AddTriangles(AddTriangle(b, Head(ts)[1], Head(ts)[2], Head(ts)[3]),
                      Tail(ts))

\* One tessellator call on BuffersBuilder::new(buffers, VertexBuilder).
Tessellate(buffers, kind, geom) ==
    EndGeometry(AddTriangles(AddVertices(BeginGeometry(buffers, kind),
                                         geom.verts), geom.tris))

\* ------------------------------------------------ the graphics context
\* factory.create_vertex_buffer_with_slice(vertices, indices): a new vertex
\* buffer holding a copy of the vertices, and a slice over an index buffer
\* holding a copy of the indices.
CreateVertexBufferWithSlice(id, vertices, indices) ==
    [vbuf |-> [id |-> id, data |-> vertices],
     slice |-> [start |-> 0, end |-> Len(indices), base_vertex |-> 0,
                buffer |-> indices]]

QuadBuffer == [id |-> 0, data |-> <<>>]
Textures == {"image"}
BlendModes == {"None", "Alpha"}

\* ------------------------------------------------------------------ state
VARIABLES
    buffer,     \* MeshBuilder.buffer: the accumulated vertices and indices
    meshes,     \* the Meshes build has returned, in order
    gfx,        \* ctx.gfx_context: instance properties, data.vbuf, data.tex
    last,       \* the call made last: its inputs, what it did, its outcome
    segs        \* history: what each shape call that appended has appended

vars == <<buffer, meshes, gfx, last, segs>>

\* The record kept of a call (history, not program state): the method, its
\* inputs, the accumulator, meshes and context it found, what the external
\* calls it made returned, and how it ended ("returned", "Ok", "Err" or
\* "panic").
NoCall ==
    [op |-> "new", mode |-> NoMode, points |-> <<>>, emitted |-> <<>>,
     pre |-> NewBuffers, preMeshes |-> <<>>,
     preGfx |-> [instance |-> "p0", vbuf |-> QuadBuffer, tex |-> "image"],
     engine |-> "none", gpu |-> "none", outcome |-> "returned",
     err |-> "none", uploads |-> <<>>, mesh |-> 0, param |-> "none",
     paramResult |-> "none", drawResult |-> "none", draws |-> <<>>]

\* MeshBuilder::new(), and a context some other drawable has drawn with.
Init ==
    /\ buffer = NewBuffers
    /\ meshes = <<>>
    /\ \E tex \in Textures :
         gfx = [instance |-> "p0", vbuf |-> QuadBuffer, tex |-> tex]
    /\ last = [NoCall EXCEPT !.preGfx = gfx]
    /\ segs = <<>>

\* A panic ends the run.
Running == last.outcome # "panic"

Call(op, mode) ==
    [NoCall EXCEPT !.op = op, !.mode = mode, !.pre = buffer,
                   !.preMeshes = meshes, !.preGfx = gfx]

\* The vertices and indices a call added past the lengths it found.
Appended(old, new) ==
    [first |-> Len(old.vertices),
     count |-> Len(new.vertices) - Len(old.vertices),
     indices |-> SubSeq(new.indices, Len(old.indices) + 1, Len(new.indices))]

Logged(old, new) ==
    IF Len(new.vertices) = Len(old.vertices)
       /\ Len(new.indices) = Len(old.indices)
    THEN segs
    ELSE Append(segs, Appended(old, new))

\* ------------------------------------------------------ shape calls
\* Mutant: the tessellator writes into fresh buffers that replace the
\* builder's, as if each call started a new mesh.
Shape_FreshBuffers(op, mode, geom) ==
    /\ Running
    /\ Len(buffer.vertices) < MaxVerts
    /\ buffer' = Tessellate(NewBuffers, mode.kind, geom)
    /\ segs' = Logged(buffer, buffer')
    /\ last' = [Call(op, mode) EXCEPT !.emitted = geom.verts, !.engine = "ok"]
    /\ UNCHANGED <<meshes, gfx>>

\* A shape call whose tessellator returns no Result (its value is dropped).
Shape(op, mode, geom) ==
    /\ Running
    /\ Len(buffer.vertices) < MaxVerts
    /\ buffer' = Tessellate(buffer, mode.kind, geom)
    /\ segs' = Logged(buffer, buffer')
    /\ last' = [Call(op, mode) EXCEPT !.emitted = geom.verts, !.engine = "ok"]
    /\ UNCHANGED <<meshes, gfx>>

\* fill_polyline(points, tessellator, &options, builder).unwrap(): geom is
\* what the tessellator wrote before it returned Ok or Err.
FillPolyline(op, geom, ok) ==
    /\ Running
    /\ Len(buffer.vertices) < MaxVerts
    /\ buffer' = Tessellate(buffer, "Fill", geom)
    /\ segs' = Logged(buffer, buffer')
    /\ last' = [Call(op, Fill) EXCEPT
                  !.emitted = geom.verts,
                  !.engine = IF ok THEN "ok" ELSE "FillError",
                  !.outcome = IF ok THEN "returned" ELSE "panic"]
    /\ UNCHANGED <<meshes, gfx>>

\* lines 27-60
Circle(mode, geom) == Shape("circle", mode, geom)

\* lines 63-99
Ellipse(mode, geom) == Shape("ellipse", mode, geom)

\* lines 102-126.  Only fill_polyline returns a Result; ok is whether it
\* returned Ok.
Polyline(op, mode, geom, ok) ==
    IF mode.kind = "Fill" THEN FillPolyline(op, geom, ok)
    ELSE ok /\ Shape(op, mode, geom)

\* lines 129-153
Polygon(mode, geom, ok) ==
    IF mode.kind = "Fill" THEN FillPolyline("polygon", geom, ok)
    ELSE ok /\ Shape("polygon", mode, geom)

\* lines 22-24: self.polyline(DrawMode::Line(width), points)
LineCall(width, geom) == Polyline("line", Line(width), geom, TRUE)

\* lines 158-198
Triangles(points) ==
    /\ Running
    /\ Len(buffer.vertices) < MaxVerts
    /\ LET c == [Call("triangles", NoMode) EXCEPT !.points = points]
           r == TrianglesBody(buffer, points)
       IN  IF TrianglesAccepts(points)
           THEN /\ buffer' = r.buffers
                /\ last' = [c EXCEPT
                              !.emitted = [i \in 1..Len(points) |->
                                              PointToFillVertex(points[i])],
                              !.outcome = IF r.ok THEN "returned"
                                          ELSE "panic"]
           ELSE /\ buffer' = buffer
                /\ last' = [c EXCEPT !.outcome = "panic"]
    /\ segs' = Logged(buffer, buffer')
    /\ UNCHANGED <<meshes, gfx>>

\* ------------------------------------------------------ build (202-214)
\* Mutant: build uploads the indices of the shape added last only.
Build_LastShapeOnly(gpuOk) ==
    /\ Running
    /\ Len(meshes) < MaxMeshes
    /\ LET up == [vertices |-> buffer.vertices,
                  indices |-> IF segs = <<>> THEN <<>>
                              ELSE segs[Len(segs)].indices]
           got == CreateVertexBufferWithSlice(Len(meshes) + 1,
                                              up.vertices, up.indices)
           c == [Call("build", NoMode) EXCEPT
                   !.uploads = <<up>>,
                   !.gpu = IF gpuOk THEN "ok" ELSE "fail"]
       IN  IF gpuOk
           THEN /\ meshes' = Append(meshes, [buffer |-> got.vbuf,
                                             slice |-> got.slice,
                                             blend_mode |-> "None"])
                /\ last' = [c EXCEPT !.outcome = "Ok",
                                     !.mesh = Len(meshes) + 1]
           ELSE /\ meshes' = meshes
                /\ last' = [c EXCEPT !.outcome = "panic"]
    /\ UNCHANGED <<buffer, gfx, segs>>

\* Mutant: a successful build takes the accumulated geometry with it,
\* leaving the builder empty.
Build_ConsumesAccumulator(gpuOk) ==
    /\ Running
    /\ Len(meshes) < MaxMeshes
    /\ LET up == [vertices |-> buffer.vertices, indices |-> buffer.indices]
           got == CreateVertexBufferWithSlice(Len(meshes) + 1,
                                              up.vertices, up.indices)
           c == [Call("build", NoMode) EXCEPT
                   !.uploads = <<up>>,
                   !.gpu = IF gpuOk THEN "ok" ELSE "fail"]
       IN  IF gpuOk
           THEN /\ meshes' = Append(meshes, [buffer |-> got.vbuf,
                                             slice |-> got.slice,
                                             blend_mode |-> "None"])
                /\ last' = [c EXCEPT !.outcome = "Ok",
                                     !.mesh = Len(meshes) + 1]
                /\ buffer' = NewBuffers
                /\ segs' = <<>>
           ELSE /\ meshes' = meshes
                /\ last' = [c EXCEPT !.outcome = "panic"]
                /\ UNCHANGED <<buffer, segs>>
    /\ UNCHANGED gfx

\* gpuOk: whether the factory can create the buffers.  The factory call
\* yields a (buffer, slice) pair, never an error value: when it cannot
\* create them the call does not return.
Build(gpuOk) ==
    /\ Running
    /\ Len(meshes) < MaxMeshes
    /\ LET up == [vertices |-> buffer.vertices, indices |-> buffer.indices]
           got == CreateVertexBufferWithSlice(Len(meshes) + 1,
                                              up.vertices, up.indices)
           c == [Call("build", NoMode) EXCEPT
                   !.uploads = <<up>>,
                   !.gpu = IF gpuOk THEN "ok" ELSE "fail"]
       IN  IF gpuOk
           THEN /\ meshes' = Append(meshes, [buffer |-> got.vbuf,
                                             slice |-> got.slice,
                                             blend_mode |-> "None"])
                /\ last' = [c EXCEPT !.outcome = "Ok",
                                     !.mesh = Len(meshes) + 1]
           ELSE /\ meshes' = meshes
                /\ last' = [c EXCEPT !.outcome = "panic"]
    /\ UNCHANGED <<buffer, gfx, segs>>

\* ------------------------------------------------------ Drawable for Mesh
\* Mutant: the buffer and texture are bound before params are applied.
DrawEx_BindsBeforeParams(m, param, paramErr, drawErr) ==
    /\ Running
    /\ m \in 1..Len(meshes)
    /\ LET c == [Call("draw_ex", NoMode) EXCEPT
                   !.mesh = m, !.param = param, !.paramResult = paramErr]
       IN  IF paramErr # "none"
           THEN /\ gfx' = [gfx EXCEPT !.vbuf = meshes[m].buffer,
                                      !.tex = "white"]
                /\ last' = [c EXCEPT !.outcome = "Err", !.err = paramErr]
           ELSE /\ gfx' = [instance |-> param, vbuf |-> meshes[m].buffer,
                           tex |-> "white"]
                /\ last' = [c EXCEPT
                              !.draws = <<meshes[m].slice>>,
                              !.drawResult = drawErr,
                              !.outcome = IF drawErr = "none" THEN "Ok"
                                          ELSE "Err",
                              !.err = drawErr]
    /\ UNCHANGED <<buffer, meshes, segs>>

\* lines 307-317.  paramErr, drawErr: the error update_instance_properties
\* and gfx.draw return, "none" when they succeed.
DrawEx(m, param, paramErr, drawErr) ==
    /\ Running
    /\ m \in 1..Len(meshes)
    /\ LET c == [Call("draw_ex", NoMode) EXCEPT
                   !.mesh = m, !.param = param, !.paramResult = paramErr]
       IN  IF paramErr # "none"
           THEN /\ gfx' = gfx
                /\ last' = [c EXCEPT !.outcome = "Err", !.err = paramErr]
           ELSE /\ gfx' = [instance |-> param, vbuf |-> meshes[m].buffer,
                           tex |-> "white"]
                /\ last' = [c EXCEPT
                              !.draws = <<meshes[m].slice>>,
                              !.drawResult = drawErr,
                              !.outcome = IF drawErr = "none" THEN "Ok"
                                          ELSE "Err",
                              !.err = drawErr]
    /\ UNCHANGED <<buffer, meshes, segs>>

\* lines 318-320
SetBlendMode(m, mode) ==
    /\ Running
    /\ m \in 1..Len(meshes)
    /\ meshes' = [meshes EXCEPT ![m].blend_mode = mode]
    /\ last' = [Call("set_blend_mode", NoMode) EXCEPT !.mesh = m]
    /\ UNCHANGED <<buffer, gfx, segs>>

\* lines 321-323
GetBlendMode(m) == meshes[m].blend_mode

\* ------------------------------------------------------ specification
DoCircle == \E mode \in DrawModes, g \in TessGeometries : Circle(mode, g)
DoEllipse == \E mode \in DrawModes, g \in TessGeometries : Ellipse(mode, g)
DoPolyline ==
    \E mode \in DrawModes, g \in TessGeometries, ok \in BOOLEAN :
        Polyline("polyline", mode, g, ok)
DoPolygon ==
    \E mode \in DrawModes, g \in TessGeometries, ok \in BOOLEAN :
        Polygon(mode, g, ok)
DoLine == \E w \in Widths, g \in TessGeometries : LineCall(w, g)
DoTriangles == \E ps \in PointLists : Triangles(ps)
DoBuild == \E gpuOk \in BOOLEAN : Build(gpuOk)
DoDrawEx ==
    \E m \in 1..Len(meshes), p \in DrawParams :
        \/ DrawEx(m, p, "ParamError", "none")
        \/ \E de \in {"none", "DeviceError"} : DrawEx(m, p, "none", de)
DoSetBlendMode ==
    \E m \in 1..Len(meshes), mode \in BlendModes : SetBlendMode(m, mode)

Next ==
    \/ DoCircle
    \/ DoEllipse
    \/ DoPolyline
    \/ DoPolygon
    \/ DoLine
    \/ DoTriangles
    \/ DoBuild

\* A MeshBuilder: shape calls and builds in any order.
Spec == Init /\ [][Next]_vars

NextDraw ==
    \/ DoTriangles
    \/ DoBuild
    \/ DoDrawEx
    \/ DoSetBlendMode

\* Meshes built from raw triangles, and a context they are drawn with.
SpecDraw == Init /\ [][NextDraw]_vars


\* ------------------------------------------------------------ properties
ShapeOps == {"line", "circle", "ellipse", "polyline", "polygon", "triangles"}

IsPrefix(a, b) == Len(a) <= Len(b) /\ SubSeq(b, 1, Len(a)) = a

RECURSIVE ConcatIndices(_)
ConcatIndices(ss) ==
    IF Len(ss) = 0 THEN <<>>
    ELSE ConcatIndices(SubSeq(ss, 1, Len(ss) - 1)) \o ss[Len(ss)].indices

\* C1: triangles(P) with |P| not a multiple of 3 panics at the call, with
\* nothing appended to the accumulator, nothing uploaded, no mesh made and
\* the graphics context untouched.
C1_TrianglesRejectsBeforeAnyEffect ==
    (last.op = "triangles" /\ Len(last.points) % 3 # 0) =>
        /\ last.outcome = "panic"
        /\ buffer = last.pre
        /\ last.uploads = <<>>
        /\ last.draws = <<>>
        /\ meshes = last.preMeshes
        /\ gfx = last.preGfx

C1_Witness ==
    /\ last.op = "triangles"
    /\ Len(last.points) % 3 # 0
    /\ Len(last.points) > 3
    /\ Len(last.pre.vertices) > 0
    /\ last.outcome = "panic"

\* C2: triangles(P) with |P| a positive multiple of 3, on a builder holding
\* n vertices and m indices, returns with exactly |P| vertices and |P|
\* indices appended; the k-th appended index triple is
\* (n+3k, n+3k+1, n+3k+2), and those slots hold P[3k], P[3k+1], P[3k+2].
C2_TrianglesAppendsTriples ==
    (last.op = "triangles" /\ Len(last.points) % 3 = 0
                           /\ Len(last.points) > 0) =>
        LET P == last.points
            n == Len(last.pre.vertices)
            m == Len(last.pre.indices)
        IN  /\ last.outcome = "returned"
            /\ Len(buffer.vertices) = n + Len(P)
            /\ Len(buffer.indices) = m + Len(P)
            /\ IsPrefix(last.pre.vertices, buffer.vertices)
            /\ IsPrefix(last.pre.indices, buffer.indices)
            /\ \A k \in 0..((Len(P) \div 3) - 1) : \A j \in 0..2 :
                 /\ buffer.indices[m + 3 * k + j + 1] = n + 3 * k + j
                 /\ buffer.vertices[n + 3 * k + j + 1].pos
                      = <<P[3 * k + j + 1].x, P[3 * k + j + 1].y>>

C2_Witness ==
    /\ last.op = "triangles"
    /\ last.outcome = "returned"
    /\ Len(last.points) = 6
    /\ last.points[1] = last.points[2]
    /\ Len(last.pre.vertices) > 0
    /\ Len(last.pre.indices) > 0

\* C3: every value in the accumulator's index list is less than the length
\* of its vertex list, after any sequence of shape calls and builds.
C3_IndicesInRange ==
    \A i \in 1..Len(buffer.indices) :
        /\ buffer.indices[i] >= 0
        /\ buffer.indices[i] < Len(buffer.vertices)

C3_Witness ==
    /\ Len(segs) >= 2
    /\ Len(meshes) >= 1
    /\ Len(buffer.indices) > meshes[1].slice.end
    /\ \E i \in 1..Len(buffer.indices) :
         buffer.indices[i] = Len(buffer.vertices) - 1

\* C4: a shape call only appends: what was accumulated before it stays where
\* it was, the indices it appends refer only to the vertices it appended,
\* the calls' vertex ranges follow one another without overlap or gap, and
\* build uploads the concatenation, in call order, of each call's indices.
C4_ChainedShapesAppendOnly ==
    /\ last.op \in ShapeOps =>
         /\ IsPrefix(last.pre.vertices, buffer.vertices)
         /\ IsPrefix(last.pre.indices, buffer.indices)
    /\ buffer.indices = ConcatIndices(segs)
    /\ \A k \in 1..Len(segs) :
         /\ segs[k].count >= 0
         /\ segs[k].first = (IF k = 1 THEN 0
                             ELSE segs[k - 1].first + segs[k - 1].count)
         /\ \A i \in 1..Len(segs[k].indices) :
              /\ segs[k].indices[i] >= segs[k].first
              /\ segs[k].indices[i] < segs[k].first + segs[k].count
    /\ Len(segs) > 0 =>
         segs[Len(segs)].first + segs[Len(segs)].count = Len(buffer.vertices)
    /\ last.op = "build" =>
         /\ Len(last.uploads) = 1
         /\ last.uploads[1].vertices = buffer.vertices
         /\ last.uploads[1].indices = ConcatIndices(segs)
         /\ last.outcome = "Ok" =>
              /\ meshes[last.mesh].buffer.data = buffer.vertices
              /\ meshes[last.mesh].slice.buffer = ConcatIndices(segs)

C4_Witness ==
    /\ last.op = "build"
    /\ last.outcome = "Ok"
    /\ Len(segs) >= 2
    /\ Len(segs[1].indices) > 0
    /\ Len(segs[2].indices) > 0

\* C5 (as claimed): when the context cannot create the vertex buffer, build
\* returns a resource-allocation error value after one upload attempt.
C5_BuildReturnsAllocationError ==
    (last.op = "build" /\ last.gpu = "fail") =>
        /\ last.outcome = "Err"
        /\ last.err = "ResourceError"
        /\ Len(last.uploads) = 1

\* C6 (as claimed): when the tessellation engine fails on a shape call's
\* input, the call hands the engine's error to its caller as an error value.
C6_TessellationFailurePropagated ==
    (last.op \in ShapeOps /\ last.engine \notin {"ok", "none"}) =>
        /\ last.outcome = "Err"
        /\ last.err = last.engine

\* C7: a build that succeeds returns a Mesh whose slice spans exactly the
\* whole accumulated index list and whose blend_mode is none; build succeeds
\* whenever the context can create the buffer, on an empty accumulator too,
\* where the slice spans zero indices.
C7_BuildSliceSpansAllIndices ==
    /\ (last.op = "build" /\ last.gpu = "ok") => last.outcome = "Ok"
    /\ (last.op = "build" /\ last.outcome = "Ok") =>
         LET mesh == meshes[last.mesh]
         IN  /\ last.mesh = Len(meshes)
             /\ mesh.slice.start = 0
             /\ mesh.slice.end = Len(buffer.indices)
             /\ mesh.slice.buffer = buffer.indices
             /\ mesh.buffer.data = buffer.vertices
             /\ mesh.blend_mode = "None"
             /\ (segs = <<>> => mesh.slice.end - mesh.slice.start = 0)

C7_Witness ==
    /\ last.op = "build"
    /\ last.outcome = "Ok"
    /\ last.mesh = 2
    /\ meshes[1].slice.end = 0
    /\ meshes[2].slice.end >= 6

\* C8: every accumulated vertex has uv = [0, 0], whichever shape method and
\* DrawMode produced it, and its pos is the position the tessellator (or the
\* triangle list) supplied for it.
C8_VerticesHaveZeroUv ==
    /\ \A i \in 1..Len(buffer.vertices) : buffer.vertices[i].uv = <<0, 0>>
    /\ last.op \in ShapeOps =>
         /\ Len(buffer.vertices)
              >= Len(last.pre.vertices) + Len(last.emitted)
         /\ \A i \in 1..Len(last.emitted) :
              buffer.vertices[Len(last.pre.vertices) + i].pos
                = last.emitted[i].position
    /\ last.op = "triangles" =>
         \A i \in 1..Len(last.emitted) :
            last.emitted[i].position = <<last.points[i].x, last.points[i].y>>

C8_Witness ==
    /\ last.op = "ellipse"
    /\ last.mode.kind = "Line"
    /\ Len(last.emitted) = 2
    /\ Len(last.pre.vertices) > 0

\* C9: draw_ex first applies params; when that fails it returns that error,
\* issues no draw call and leaves the bound vertex buffer and texture as
\* they were.  Otherwise it binds the mesh's buffer, selects the white
\* texture and issues exactly one draw call over the mesh's slice, returning
\* Ok exactly when the draw call succeeded and the draw call's error
\* otherwise.
C9_DrawAppliesBindsDrawsOnce ==
    last.op = "draw_ex" =>
        IF last.paramResult # "none"
        THEN /\ last.outcome = "Err"
             /\ last.err = last.paramResult
             /\ last.draws = <<>>
             /\ gfx.vbuf = last.preGfx.vbuf
             /\ gfx.tex = last.preGfx.tex
        ELSE /\ gfx.instance = last.param
             /\ gfx.vbuf = meshes[last.mesh].buffer
             /\ gfx.tex = "white"
             /\ last.draws = <<meshes[last.mesh].slice>>
             /\ (last.outcome = "Ok") <=> (last.drawResult = "none")
             /\ last.drawResult # "none" =>
                  (last.outcome = "Err" /\ last.err = last.drawResult)

C9_Witness ==
    /\ last.op = "draw_ex"
    /\ last.paramResult = "ParamError"
    /\ gfx.vbuf # QuadBuffer
    /\ gfx.vbuf.id # meshes[last.mesh].buffer.id

\* C10: build leaves the accumulator as it is: two builds with no shape call
\* between them upload the same lists, a later build uploads what an earlier
\* one uploaded followed by what was added since, and no shape call changes
\* a Mesh already returned.
C10_BuildKeepsAccumulator ==
    /\ [](/\ last.op = "build" =>
               (buffer = last.pre /\ last.uploads = <<buffer>>)
          /\ last.op \in ShapeOps => meshes = last.preMeshes
          /\ \A k \in 1..Len(meshes) :
               /\ IsPrefix(meshes[k].buffer.data, buffer.vertices)
               /\ IsPrefix(meshes[k].slice.buffer, buffer.indices))
    /\ [][(last.op = "build" /\ last'.op = "build")
            => last'.uploads = last.uploads]_vars

C10_Witness ==
    /\ last.op = "build"
    /\ last.outcome = "Ok"
    /\ last.mesh = 2
    /\ Len(meshes[1].buffer.data) > 0
    /\ Len(meshes[2].buffer.data) > Len(meshes[1].buffer.data)
    /\ Len(meshes[2].slice.buffer) > Len(meshes[1].slice.buffer)

=============================================================================
